---- MODULE Spec2Model ----
(***************************************************************************)
(* Model of main.py: an HTTP front end (SimpleFramework, run_http_server)  *)
(* that serves files and forwards POST bodies as UDP datagrams, and a      *)
(* socket server (run_socket_server, save_data) that decodes each datagram *)
(* and inserts it into a MongoDB collection.                               *)
(*                                                                         *)
(* Text is a sequence of one-character strings; a bytes object is a        *)
(* sequence of the same, where the one byte outside ASCII that the model   *)
(* uses is "\\xFF".                                                        *)
(***************************************************************************)
EXTENDS Integers, Sequences, FiniteSets, TLC

(***************************************************************************)
(* Bounds of the model.                                                    *)
(***************************************************************************)
\* HTTP requests accepted in one run.
MaxRequests == 2
\* Datagrams the kernel queues for the bound socket before it drops new ones.
ChanCap == 2
\* Readings of the Consumer's clock.
MaxClock == 1
\* Longest datagram of the exhaustive decoding specification.
MaxLen == 4
\* config["buffer_size"] (1024 in main.py), scaled to the model's bodies.
buffer_size == 6
\* Largest payload sendto() accepts for one UDP datagram (65507), scaled.
UDP_MAX == 9

(***************************************************************************)
(* Text helpers.                                                           *)
(***************************************************************************)
\* The printable ASCII characters, 0x20 .. 0x7E, in code order (the grave accent,
\* which the lexer does not take inside a string, by its code).
Printable ==
  << " ", "!", "\"", "#", "$", "%", "&", "'", "(", ")", "*", "+", ",", "-", ".", "/",
     "0", "1", "2", "3", "4", "5", "6", "7", "8", "9", ":", ";", "<", "=", ">", "?",
     "@", "A", "B", "C", "D", "E", "F", "G", "H", "I", "J", "K", "L", "M", "N", "O",
     "P", "Q", "R", "S", "T", "U", "V", "W", "X", "Y", "Z", "[", "\\", "]", "^", "_",
     "\\x60", "a", "b", "c", "d", "e", "f", "g", "h", "i", "j", "k", "l", "m", "n", "o",
     "p", "q", "r", "s", "t", "u", "v", "w", "x", "y", "z", "{", "|", "}", "~" >>

AsciiChars == {Printable[i] : i \in DOMAIN Printable}

\* chr(b) for a code point: printable ASCII from the table, anything else a
\* one-character token that names the code point.
Chr(b) == IF b >= 32 /\ b <= 126 THEN Printable[b - 31] ELSE "\\u" \o ToString(b)

\* U+FFFD, what bytes.decode(errors="replace") writes for an undecodable byte.
ReplacementChar == Chr(65533)

HexChars ==
  {"0", "1", "2", "3", "4", "5", "6", "7", "8", "9",
   "A", "B", "C", "D", "E", "F", "a", "b", "c", "d", "e", "f"}

\* urllib.parse._hextobyte: the value of one hex digit.
HexVal(c) ==
  CASE c \in {"0", "1", "2", "3", "4", "5", "6", "7", "8", "9"} ->
         (CHOOSE i \in 0..9 : Printable[17 + i] = c)
    [] c \in {"A", "a"} -> 10
    [] c \in {"B", "b"} -> 11
    [] c \in {"C", "c"} -> 12
    [] c \in {"D", "d"} -> 13
    [] c \in {"E", "e"} -> 14
    [] c \in {"F", "f"} -> 15

\* s[i:] of Python, 1-based.
From(s, i) == SubSeq(s, i, Len(s))

\* Whether s starts with a %XX escape.
IsEscape(s) == Len(s) >= 3 /\ s[1] = "%" /\ s[2] \in HexChars /\ s[3] \in HexChars

EscapeByte(s) == 16 * HexVal(s[2]) + HexVal(s[3])

\* str.replace("+", " ")
PlusToSpace(s) == [i \in DOMAIN s |-> IF s[i] = "+" THEN " " ELSE s[i]]

\* urllib.parse.unquote(string, encoding="utf-8", errors="replace"): every %XX
\* becomes a byte and the bytes are decoded as UTF-8, an undecodable byte
\* becoming U+FFFD; a "%" that two hex digits do not follow stays as it is.
\* One- and two-byte UTF-8 forms are decoded; a lead byte of a longer form
\* is replaced.
RECURSIVE unquote(_)
unquote(s) ==
  IF s = << >> THEN << >>
  ELSE IF IsEscape(s)
    THEN LET b == EscapeByte(s)
             rest == From(s, 4)
         IN  IF b < 128 THEN <<Chr(b)>> \o unquote(rest)
             ELSE IF /\ b >= 194 /\ b <= 223
                     /\ IsEscape(rest)
                     /\ EscapeByte(rest) >= 128 /\ EscapeByte(rest) <= 191
                  THEN <<Chr((b - 192) * 64 + (EscapeByte(rest) - 128))>>
                         \o unquote(From(rest, 4))
                  ELSE <<ReplacementChar>> \o unquote(rest)
    ELSE <<s[1]>> \o unquote(Tail(s))

\* urllib.parse.unquote_plus
unquote_plus(s) == unquote(PlusToSpace(s))

\* str.split(sep) for a one-character separator: always at least one piece.
RECURSIVE split(_, _)
split(s, sep) ==
  IF \A i \in DOMAIN s : s[i] # sep THEN <<s>>
  ELSE LET i == CHOOSE j \in DOMAIN s : s[j] = sep /\ \A k \in 1..(j - 1) : s[k] # sep
       IN  <<SubSeq(s, 1, i - 1)>> \o split(From(s, i + 1), sep)

\* bytes.decode(): strict UTF-8. The model's bytes are ASCII or 0xFF, and 0xFF
\* is valid nowhere in UTF-8.
Utf8Valid(data) == \A i \in DOMAIN data : data[i] \in AsciiChars

(***************************************************************************)
(* save_data: the decoding of one datagram.                                *)
(***************************************************************************)
\* The key "date" of the record.
DateKey == <<"d", "a", "t", "e">>

\* datetime.now() read when the clock shows t: a value no text equals.
Datetime(t) == <<"datetime:" \o ToString(t)>>

\* Mutant of KvLists: each pair is cut at its first "=" only, as
\* kv.split("=", 1) would.
KvListsFirstEq(data_str) ==
  LET kvs == split(data_str, "&")
  IN  [i \in DOMAIN kvs |->
         IF \A j \in DOMAIN kvs[i] : kvs[i][j] # "=" THEN <<kvs[i]>>
         ELSE LET p == CHOOSE j \in DOMAIN kvs[i] :
                         kvs[i][j] = "=" /\ \A q \in 1..(j - 1) : kvs[i][q] # "="
              IN  <<SubSeq(kvs[i], 1, p - 1), From(kvs[i], p + 1)>>]

\* kv.split("=") for kv in data_str.split("&")
KvLists(data_str) ==
  LET kvs == split(data_str, "&") IN [i \in DOMAIN kvs |-> split(kvs[i], "=")]

\* dict(...) raises ValueError unless every element has length 2.
DictRaises(lists) == \E i \in DOMAIN lists : Len(lists[i]) # 2

\* dict(...) of key/value lists: a later pair replaces an earlier one of the
\* same key.
Dict(lists) ==
  [k \in {lists[i][1] : i \in DOMAIN lists} |->
     lists[CHOOSE i \in DOMAIN lists :
             /\ lists[i][1] = k
             /\ \A j \in DOMAIN lists : lists[j][1] = k => j <= i][2]]

\* Mutant of WithDate: a "date" the payload brings is kept, as
\* data_dict.setdefault("date", datetime.now()) would.
WithDateKeepSubmitted(d, t) ==
  [k \in DOMAIN d \cup {DateKey} |-> IF k \in DOMAIN d THEN d[k] ELSE Datetime(t)]

\* data_dict["date"] = datetime.now()
WithDate(d, t) ==
  [k \in DOMAIN d \cup {DateKey} |-> IF k = DateKey THEN Datetime(t) ELSE d[k]]

\* The record save_data builds from the bytes it is given (lines 91-94).
DataDict(data, t) == WithDate(Dict(KvLists(unquote_plus(data))), t)

\* Whether save_data reaches insert_one (line 95) with the datagram.
ReachesInsert(data) == Utf8Valid(data) /\ ~DictRaises(KvLists(unquote_plus(data)))

\* Mutant of SaveOutcome: insert_one outside the try, so that the store's
\* refusal leaves save_data as an exception.
SaveOutcomeUncaught(data, accepts) ==
  IF ~Utf8Valid(data) THEN "raised"
  ELSE IF DictRaises(KvLists(unquote_plus(data))) THEN "ValueError"
  ELSE IF ~accepts THEN "raised"
  ELSE "inserted"

\* What save_data does with a datagram, the store accepting the insert or not:
\*   "raised"      data.decode() raises UnicodeDecodeError outside the try
\*                 (line 91): the exception leaves save_data
\*   "ValueError"  dict() raises, caught and logged (lines 93, 96-97)
\*   "StoreError"  insert_one raises, caught and logged (lines 95-97)
\*   "inserted"    the record is in the collection (line 95)
SaveOutcome(data, accepts) ==
  IF ~Utf8Valid(data) THEN "raised"
  ELSE IF DictRaises(KvLists(unquote_plus(data))) THEN "ValueError"
  ELSE IF ~accepts THEN "StoreError"
  ELSE "inserted"

(***************************************************************************)
(* Paths. A path is a sequence of tokens: the separator "/", the query     *)
(* mark "?", the fragment mark "#", the segment "..", a file stem and an   *)
(* extension such as ".html".                                              *)
(***************************************************************************)
\* config["base_dir"]
base_dir == <<"/", "app">>

\* urlparse(self.path).path: the target up to its query or fragment.
UrlPath(target) ==
  IF \E i \in DOMAIN target : target[i] \in {"?", "#"}
  THEN SubSeq(target, 1,
              (CHOOSE i \in DOMAIN target :
                 /\ target[i] \in {"?", "#"}
                 /\ \A j \in 1..(i - 1) : target[j] \notin {"?", "#"}) - 1)
  ELSE target

\* str.lstrip("/")
RECURSIVE lstrip(_)
lstrip(s) == IF s # << >> /\ s[1] = "/" THEN lstrip(Tail(s)) ELSE s

\* self.path: BaseHTTPRequestHandler.parse_request leaves the request target
\* as it is, ".." segments included, but for several leading "/", which it
\* reduces to one.
SelfPath(target) ==
  IF Len(target) >= 2 /\ target[1] = "/" /\ target[2] = "/"
  THEN <<"/">> \o lstrip(target)
  ELSE target

\* Path.joinpath: joining "" gives the directory itself, and joining an
\* absolute path gives that path.
joinpath(dir, rel) ==
  IF rel = << >> THEN dir
  ELSE IF rel[1] = "/" THEN rel
  ELSE dir \o <<"/">> \o rel

\* The file a path names, as the list of its segments from the root: empty
\* segments dropped, ".." leaving the directory it follows.
RECURSIVE Resolve(_, _)
Resolve(segs, acc) ==
  IF segs = << >> THEN acc
  ELSE IF Head(segs) = << >> THEN Resolve(Tail(segs), acc)
  ELSE IF Head(segs) = <<"..">>
    THEN Resolve(Tail(segs), IF acc = << >> THEN acc ELSE SubSeq(acc, 1, Len(acc) - 1))
  ELSE Resolve(Tail(segs), Append(acc, Head(segs)))

Location(path) == Resolve(split(path, "/"), << >>)

\* The directories of the file system, the regular files that may be in the
\* base directory, and a regular file that is outside it.
Dirs == {<< >>, << <<"app">> >>}
InBase(name) == << <<"app">>, name >>
OutsideFile == << <<"nope">> >>
IndexHtml == InBase(<<"index", ".html">>)
MessageHtml == InBase(<<"message", ".html">>)
ErrorHtml == InBase(<<"error", ".html">>)
AllFiles ==
  {IndexHtml, MessageHtml, ErrorHtml,
   InBase(<<"message">>), InBase(<<"style", ".css">>), InBase(<<"data", ".zzz">>),
   OutsideFile}

\* The states the base directory may be in: each of the three documents
\* present or absent.
FsStates == {AllFiles \ gone : gone \in SUBSET {IndexHtml, MessageHtml, ErrorHtml}}

\* The bytes of a file: each file has its own.
FileBytes(loc) == <<"bytes of">> \o loc[Len(loc)]

\* mimetypes.guess_type(filepath)[0] or "text/plain"
Mimetype(path) ==
  LET ext == IF path = << >> THEN "" ELSE path[Len(path)]
  IN  CASE ext = ".html" -> "text/html"
        [] ext = ".css" -> "text/css"
        [] ext = ".txt" -> "text/plain"
        [] OTHER -> "text/plain"

(***************************************************************************)
(* Requests and responses.                                                 *)
(***************************************************************************)
\* The request targets of the model.
Targets ==
  { <<"/">>, <<"/", "message">>, <<"/", "message", "?", "q">>,
    <<"/", "index", ".html">>, <<"/", "error", ".html">>,
    <<"/", "style", ".css">>, <<"/", "data", ".zzz">>, <<"/", "nope">>,
    <<"/", "/", "style", ".css">>, <<"/", "..", "/", "nope">>, <<"/", "..">> }

\* The POST bodies of the model. <<"f","=","v">> stands for field=value.
Bodies ==
  { << >>,
    <<"f", "=", "v">>,
    <<"n", "v">>,
    <<"a", "=", "\\xFF">>,
    <<"a", "=", "1", "&", "b", "=", "2", "2">>,
    <<"a", "=", "1", "&", "b", "=", "2", "2", "2", "2", "2">> }

\* A request without a Content-Length header.
NoHeader == <<"(absent)">>

\* str(n) for 0 <= n < 100.
Digits(n) ==
  IF n < 10 THEN <<Printable[17 + n]>>
  ELSE <<Printable[17 + (n \div 10)], Printable[17 + (n % 10)]>>

\* The targets POST requests are sent to.
PostTargets == { <<"/">>, <<"/", "message">> }

\* The Content-Length headers a client sends: the body's length with every
\* body; no header, and values that are no length, with the body f=v.
ContentLengths(body) ==
  IF body = <<"f", "=", "v">>
  THEN { Digits(Len(body)), NoHeader, << >>, <<"a", "b", "c">>, <<"-", "1">>, <<"-", "5">> }
  ELSE { Digits(Len(body)) }

IsDigits(s) == s # << >> /\ \A i \in DOMAIN s : s[i] \in {Printable[17 + d] : d \in 0..9}

RECURSIVE DigitsValue(_)
DigitsValue(s) ==
  IF s = << >> THEN 0 ELSE 10 * DigitsValue(SubSeq(s, 1, Len(s) - 1)) + HexVal(s[Len(s)])

\* int(s) raises ValueError unless s is an optional sign and decimal digits.
IntRaises(s) ==
  ~(IsDigits(s) \/ (Len(s) > 1 /\ s[1] \in {"-", "+"} /\ IsDigits(Tail(s))))

\* int(s)
IntValue(s) ==
  IF s[1] = "-" THEN 0 - DigitsValue(Tail(s))
  ELSE IF s[1] = "+" THEN DigitsValue(Tail(s))
  ELSE DigitsValue(s)

NoReq == [method |-> "", target |-> << >>, cl |-> NoHeader, body |-> << >>]
NoResp == [status |-> 0, location |-> << >>, ctype |-> "", body |-> << >>, end |-> "none"]
NoData == [id |-> 0, data |-> << >>]

(***************************************************************************)
(* State.                                                                  *)
(***************************************************************************)
VARIABLES
  main,    \* where the supervising process is in lines 141-147
  http,    \* the Router process: "none", "boot", "serving", "dead", "stopped"
  hpc,     \* where the request handler is: "idle", "post_eof", "post_sent", "get_body"
  req,     \* the request being handled, or the last one handled
  resp,    \* what has been written to that request's connection
  hfile,   \* the path send_file has found to exist and is about to open
  nreq,    \* requests accepted so far
  fs,      \* the regular files that exist
  sent,    \* the datagrams sendto() has accepted, in order, each with whether
           \* both workers had been started and whether it was queued
  csock,   \* the Consumer process: "none", "boot", "recv", "save", "crashed", "dead", "stopped"
  chan,    \* the datagrams queued in the kernel for the Consumer's socket
  cdata,   \* the datagram recvfrom returned
  store,   \* the documents of final_home_work.messages, in insertion order
  refused, \* the datagrams whose insert the store has refused
  log,     \* the Consumer's log records
  now,     \* the last reading of the Consumer's clock
  clients, \* the MongoClient objects that are open (line 89)
  intr     \* the workers a KeyboardInterrupt has been raised in

vars ==
  <<main, http, hpc, req, resp, hfile, nreq, fs, sent, csock, chan, cdata, store,
    refused, log, now, clients, intr>>

routerVars == <<http, hpc, req, resp, hfile, nreq>>
consumerVars == <<csock, cdata, store, refused, log, clients>>

Init ==
  /\ main = "start_http"
  /\ http = "none"
  /\ hpc = "idle"
  /\ req = NoReq
  /\ resp = NoResp
  /\ hfile = << >>
  /\ nreq = 0
  /\ fs = AllFiles
  /\ sent = << >>
  /\ csock = "none"
  /\ chan = << >>
  /\ cdata = NoData
  /\ store = << >>
  /\ refused = {}
  /\ log = << >>
  /\ now = 0
  /\ clients = 0
  /\ intr = {}

(***************************************************************************)
(* The supervising process, lines 138-147.                                 *)
(***************************************************************************)
\* http_process.start()
StartHttp ==
  /\ main = "start_http"
  /\ main' = "start_socket"
  /\ http' = "boot"
  /\ UNCHANGED <<hpc, req, resp, hfile, nreq, fs, sent, consumerVars, chan, now, intr>>

\* socket_process.start()
StartSocket ==
  /\ main = "start_socket"
  /\ main' = "join_http"
  /\ csock' = "boot"
  /\ UNCHANGED <<routerVars, fs, sent, chan, cdata, store, refused, log, now, clients, intr>>

\* http_process.join()
JoinHttp ==
  /\ main = "join_http"
  /\ http \in {"dead", "stopped"}
  /\ main' = "join_socket"
  /\ UNCHANGED <<routerVars, fs, sent, consumerVars, chan, now, intr>>

\* socket_process.join()
JoinSocket ==
  /\ main = "join_socket"
  /\ csock \in {"dead", "stopped", "crashed"}
  /\ main' = "exit"
  /\ UNCHANGED <<routerVars, fs, sent, consumerVars, chan, now, intr>>

(***************************************************************************)
(* The Router: run_http_server and SimpleFramework.                        *)
(***************************************************************************)
\* HTTPServer(server_address, SimpleFramework): the port is bound, or the
\* constructor raises OSError and the process ends.
HttpBind ==
  /\ http = "boot"
  /\ http' \in {"serving", "dead"}
  /\ UNCHANGED <<main, hpc, req, resp, hfile, nreq, fs, sent, consumerVars, chan, now, intr>>

\* The handler raises: the server closes the connection with what was
\* written so far and goes on serving.
Fault(written) ==
  /\ resp' = [written EXCEPT !.end = "fault"]
  /\ hpc' = "idle"

\* Whether a datagram sent now reaches the Consumer's socket: the socket is
\* bound and its queue has room.
Delivered == csock \in {"recv", "save"} /\ Len(chan) < ChanCap

\* Mutant of ForwardToSocket: the datagram is sent a second time.
ForwardToSocketTwice(data) ==
  IF Len(data) > UDP_MAX
  THEN Fault(NoResp) /\ UNCHANGED <<sent, chan>>
  ELSE /\ sent' = Append(sent, [data |-> data,
                                 started |-> main \notin {"start_http", "start_socket"},
                                 queued |-> Delivered])
       /\ chan' = IF Delivered
                  THEN chan \o << [id |-> Len(sent) + 1, data |-> data],
                                  [id |-> Len(sent) + 1, data |-> data] >>
                  ELSE chan
       /\ hpc' = "post_sent"
       /\ resp' = NoResp

\* forward_to_socket(data), lines 72-74: sendto raises OSError for a payload
\* no datagram can hold; otherwise the datagram is sent, and queued for the
\* Consumer when it is delivered.
ForwardToSocket(data) ==
  IF Len(data) > UDP_MAX
  THEN Fault(NoResp) /\ UNCHANGED <<sent, chan>>
  ELSE /\ sent' = Append(sent, [data |-> data,
                                 started |-> main \notin {"start_http", "start_socket"},
                                 queued |-> Delivered])
       /\ chan' = IF Delivered
                  THEN Append(chan, [id |-> Len(sent) + 1, data |-> data])
                  ELSE chan
       /\ hpc' = "post_sent"
       /\ resp' = NoResp

\* do_POST, lines 53-55. int() raises for a header that is no integer, and
\* rfile.read(n) raises for n < -1; read(-1), and a read of more bytes than
\* the client has sent, wait for the client to close its side.
PostBegin(r) ==
  IF r.cl # NoHeader /\ IntRaises(r.cl)
  THEN Fault(NoResp) /\ UNCHANGED <<sent, chan>>
  ELSE LET content_length == IF r.cl = NoHeader THEN 0 ELSE IntValue(r.cl)
       IN  IF content_length < -1
           THEN Fault(NoResp) /\ UNCHANGED <<sent, chan>>
           ELSE IF content_length = -1 \/ content_length > Len(r.body)
           THEN hpc' = "post_eof" /\ resp' = NoResp /\ UNCHANGED <<sent, chan>>
           ELSE ForwardToSocket(SubSeq(r.body, 1, content_length))

\* The headers of a file response, lines 63-66.
FileHeaders(filepath, status) ==
  [status |-> status, location |-> << >>, ctype |-> Mimetype(filepath),
   body |-> << >>, end |-> "none"]

\* Path.exists()
Exists(filepath) == Location(filepath) \in fs \cup Dirs

\* send_html("error.html", HTTP_NOT_FOUND), lines 58-59
ErrorPath == joinpath(base_dir, <<"error", ".html">>)

\* send_file, lines 61-66 and 69-70, up to the headers. Without error.html,
\* send_file and send_html call each other until RecursionError is raised.
SendFile(filepath) ==
  IF Exists(filepath)
  THEN /\ resp' = FileHeaders(filepath, 200)
       /\ hfile' = filepath
       /\ hpc' = "get_body"
  ELSE IF Exists(ErrorPath)
  THEN /\ resp' = FileHeaders(ErrorPath, 404)
       /\ hfile' = ErrorPath
       /\ hpc' = "get_body"
  ELSE /\ resp' = [NoResp EXCEPT !.end = "fault"]
       /\ hfile' = << >>
       /\ hpc' = "idle"

\* Mutant of GetPath: the leading "/" is not stripped before the join.
GetPathNoStrip(target) ==
  LET router == UrlPath(SelfPath(target))
  IN  IF router = <<"/">> THEN joinpath(base_dir, <<"index", ".html">>)
      ELSE IF router = <<"/", "message">> THEN joinpath(base_dir, <<"message", ".html">>)
      ELSE joinpath(base_dir, router)

\* The path do_GET gives to send_file, lines 43-49.
GetPath(target) ==
  LET router == UrlPath(SelfPath(target))
  IN  IF router = <<"/">> THEN joinpath(base_dir, <<"index", ".html">>)
      ELSE IF router = <<"/", "message">> THEN joinpath(base_dir, <<"message", ".html">>)
      ELSE joinpath(base_dir, lstrip(router))

\* do_GET, lines 42-50, to the end of the response headers.
DoGet ==
  /\ http = "serving"
  /\ hpc = "idle"
  /\ nreq < MaxRequests
  /\ \E t \in Targets :
       /\ req' = [method |-> "GET", target |-> t, cl |-> NoHeader, body |-> << >>]
       /\ SendFile(GetPath(t))
  /\ nreq' = nreq + 1
  /\ UNCHANGED <<main, http, fs, sent, consumerVars, chan, now, intr>>

\* send_file, lines 67-68: the file is opened, read and written. open()
\* raises for a directory and for a file that is no longer there.
GetBody ==
  /\ http = "serving"
  /\ hpc = "get_body"
  /\ IF Location(hfile) \in fs
     THEN /\ resp' = [resp EXCEPT !.body = FileBytes(Location(hfile)), !.end = "complete"]
          /\ hpc' = "idle"
     ELSE Fault(resp)
  /\ hfile' = << >>
  /\ UNCHANGED <<main, http, req, nreq, fs, sent, consumerVars, chan, now, intr>>

\* do_POST, lines 52-55, for a request with any body and Content-Length.
DoPost ==
  /\ http = "serving"
  /\ hpc = "idle"
  /\ nreq < MaxRequests
  /\ \E t \in PostTargets, b \in Bodies :
       \E cl \in ContentLengths(b) :
         LET r == [method |-> "POST", target |-> t, cl |-> cl, body |-> b]
         IN  /\ req' = r
             /\ PostBegin(r)
  /\ nreq' = nreq + 1
  /\ UNCHANGED <<main, http, hfile, fs, consumerVars, now, intr>>

\* The client closes its side of the connection: the read of line 54 that
\* was waiting returns all the client sent, and do_POST goes on to line 55.
PostEof ==
  /\ http = "serving"
  /\ hpc = "post_eof"
  /\ ForwardToSocket(req.body)
  /\ UNCHANGED <<main, http, req, hfile, nreq, fs, consumerVars, now, intr>>

\* Mutant of PostRedirect: the response reports what the Consumer has made
\* of the datagram, as a handler that waited for the Consumer would.
PostRedirectSurfacing ==
  /\ http = "serving"
  /\ hpc = "post_sent"
  /\ resp' = IF \E i \in DOMAIN log : log[i].level = "ERROR" /\ log[i].id = Len(sent)
             THEN [NoResp EXCEPT !.status = 500, !.end = "complete"]
             ELSE [NoResp EXCEPT !.status = 302, !.location = <<"/">>, !.end = "complete"]
  /\ hpc' = "idle"
  /\ UNCHANGED <<main, http, req, hfile, nreq, fs, sent, consumerVars, chan, now, intr>>

\* redirect("/"), lines 56 and 76-79
PostRedirect ==
  /\ http = "serving"
  /\ hpc = "post_sent"
  /\ resp' = [NoResp EXCEPT !.status = 302, !.location = <<"/">>, !.end = "complete"]
  /\ hpc' = "idle"
  /\ UNCHANGED <<main, http, req, hfile, nreq, fs, sent, consumerVars, chan, now, intr>>

\* KeyboardInterrupt in the Router, lines 111-115: serve_forever is left and
\* the listening socket closed; a request in hand is abandoned.
HttpInterrupt ==
  /\ http = "serving"
  /\ http' = "stopped"
  /\ hpc' = "idle"
  /\ resp' = IF hpc = "idle" THEN resp ELSE [resp EXCEPT !.end = "abandoned"]
  /\ hfile' = << >>
  /\ intr' = intr \cup {"http"}
  /\ UNCHANGED <<main, req, nreq, fs, sent, consumerVars, chan, now>>

(***************************************************************************)
(* The Consumer: run_socket_server and save_data.                          *)
(***************************************************************************)
\* sock.bind(...), line 125: the port is bound, or bind raises OSError and
\* the process ends.
SocketBind ==
  /\ csock = "boot"
  /\ csock' \in {"recv", "dead"}
  /\ UNCHANGED <<main, routerVars, fs, sent, chan, cdata, store, refused, log, now, clients, intr>>

\* What recvfrom(bufsize) returns of a datagram: its first bufsize bytes.
Received(data) == SubSeq(data, 1, IF Len(data) < buffer_size THEN Len(data) ELSE buffer_size)

\* Mutant of SocketRecv: the datagram is read with MSG_PEEK and stays queued.
SocketRecvPeek ==
  /\ csock = "recv"
  /\ chan # << >>
  /\ cdata' = [id |-> Head(chan).id, data |-> Received(Head(chan).data)]
  /\ log' = Append(log, [level |-> "INFO", id |-> Head(chan).id, exc |-> ""])
  /\ csock' = "save"
  /\ clients' = clients + 1
  /\ UNCHANGED <<main, routerVars, fs, sent, chan, store, refused, now, intr>>

\* data, _ = sock.recvfrom(config["buffer_size"]); logging.info(...),
\* lines 129-130, and the call of save_data as far as the MongoClient it
\* opens (lines 131 and 89)
SocketRecv ==
  /\ csock = "recv"
  /\ chan # << >>
  /\ cdata' = [id |-> Head(chan).id, data |-> Received(Head(chan).data)]
  /\ chan' = Tail(chan)
  /\ log' = Append(log, [level |-> "INFO", id |-> Head(chan).id, exc |-> ""])
  /\ csock' = "save"
  /\ clients' = clients + 1
  /\ UNCHANGED <<main, routerVars, fs, sent, store, refused, now, intr>>

\* Mutant of CloseClient: the client is closed after an insert only, as
\* client.close() at the end of the try block would.
CloseClientOnSuccess(n, outcome) == IF outcome = "inserted" THEN n - 1 ELSE n

\* The end of the with block of line 89: the client is closed however the
\* block is left.
CloseClient(n, outcome) == n - 1

\* save_data(data), lines 82-97, and the loop's next turn (line 128) or,
\* when an exception leaves save_data, the end of the process. The store
\* accepts or refuses the insert it is asked for, and datetime.now() reads a
\* clock that does not go back.
SaveData ==
  /\ csock = "save"
  /\ \E accepts \in BOOLEAN, t \in now..MaxClock :
       LET outcome == SaveOutcome(cdata.data, accepts)
       IN  /\ csock' = IF outcome = "raised" THEN "crashed" ELSE "recv"
           /\ now' = IF ReachesInsert(cdata.data) THEN t ELSE now
           /\ cdata' = IF outcome = "raised" THEN cdata ELSE NoData
           /\ store' = IF outcome = "inserted"
                       THEN Append(store, [src |-> cdata.id, doc |-> DataDict(cdata.data, t)])
                       ELSE store
           /\ refused' = IF ReachesInsert(cdata.data) /\ ~accepts
                         THEN refused \cup {cdata.id}
                         ELSE refused
           /\ log' = IF outcome \in {"ValueError", "StoreError"}
                     THEN Append(log, [level |-> "ERROR", id |-> cdata.id, exc |-> outcome])
                     ELSE log
           /\ clients' = CloseClient(clients, outcome)
  /\ UNCHANGED <<main, routerVars, fs, sent, chan, intr>>

\* Mutant of SocketInterrupt: without the except clause of line 132 the
\* interrupt leaves run_socket_server as an exception.
SocketInterruptUncaught ==
  /\ csock \in {"recv", "save"}
  /\ csock' = "crashed"
  /\ clients' = IF csock = "save" THEN CloseClient(clients, "interrupted") ELSE clients
  /\ intr' = intr \cup {"socket"}
  /\ UNCHANGED <<main, routerVars, fs, sent, chan, cdata, store, refused, log, now>>

\* KeyboardInterrupt in the Consumer, lines 132-135: the loop is left and the
\* socket closed, whether the process waits in recvfrom or is in save_data,
\* where the with block of line 89 closes the client on the way out.
SocketInterrupt ==
  /\ csock \in {"recv", "save"}
  /\ csock' = "stopped"
  /\ clients' = IF csock = "save" THEN CloseClient(clients, "interrupted") ELSE clients
  /\ intr' = intr \cup {"socket"}
  /\ UNCHANGED <<main, routerVars, fs, sent, chan, cdata, store, refused, log, now>>

Next ==
  \/ StartHttp
  \/ StartSocket
  \/ JoinHttp
  \/ JoinSocket
  \/ HttpBind
  \/ DoGet
  \/ GetBody
  \/ DoPost
  \/ PostEof
  \/ PostRedirect
  \/ HttpInterrupt
  \/ SocketBind
  \/ SocketRecv
  \/ SaveData
  \/ SocketInterrupt

Spec == Init /\ [][Next]_vars

(***************************************************************************)
(* save_data on every datagram up to MaxLen characters: the Consumer has   *)
(* received the datagram of one answered POST and is about to call         *)
(* save_data.                                                              *)
(***************************************************************************)
DecodeAlphabet == {"k", "=", "&", "+", "%", "2", "3", "5", "6", "B", "D"}

Payloads == UNION {[1..n -> DecodeAlphabet] : n \in 0..MaxLen}

\* Two more datagrams: one that brings a "date" of its own, and one that
\* repeats a key.
DatePayloads ==
  { <<"d", "a", "t", "e", "=", "5">>, <<"k", "=", "&", "k", "=", "5">> }

InitDecode ==
  /\ main = "join_http"
  /\ http = "serving"
  /\ hpc = "idle"
  /\ \E data \in Payloads \cup DatePayloads :
       /\ req = [method |-> "POST", target |-> <<"/", "message">>,
                 cl |-> Digits(Len(data)), body |-> data]
       /\ sent = << [data |-> data, started |-> TRUE, queued |-> TRUE] >>
       /\ cdata = [id |-> 1, data |-> Received(data)]
  /\ resp = [NoResp EXCEPT !.status = 302, !.location = <<"/">>, !.end = "complete"]
  /\ hfile = << >>
  /\ nreq = 1
  /\ fs = AllFiles
  /\ csock = "save"
  /\ chan = << >>
  /\ store = << >>
  /\ refused = {}
  /\ log = << [level |-> "INFO", id |-> 1, exc |-> ""] >>
  /\ now = MaxClock
  /\ clients = 1
  /\ intr = {}

NextDecode == SaveData

SpecDecode == InitDecode /\ [][NextDecode]_vars

(***************************************************************************)
(* The Router serving GET requests from every state of the base directory, *)
(* both workers started and bound.                                         *)
(***************************************************************************)
InitFiles ==
  /\ main = "join_http"
  /\ http = "serving"
  /\ hpc = "idle"
  /\ req = NoReq
  /\ resp = NoResp
  /\ hfile = << >>
  /\ nreq = 0
  /\ fs \in FsStates
  /\ sent = << >>
  /\ csock = "recv"
  /\ chan = << >>
  /\ cdata = NoData
  /\ store = << >>
  /\ refused = {}
  /\ log = << >>
  /\ now = 0
  /\ clients = 0
  /\ intr = {}

NextFiles ==
  \/ DoGet
  \/ GetBody

SpecFiles == InitFiles /\ [][NextFiles]_vars

(***************************************************************************)
(* The same Router while another process removes files.                    *)
(***************************************************************************)
\* A file is removed by a process that is not this program.
FsRemove ==
  /\ \E f \in fs : fs' = fs \ {f}
  /\ UNCHANGED <<main, routerVars, sent, consumerVars, chan, now, intr>>

NextRace ==
  \/ DoGet
  \/ GetBody
  \/ FsRemove

SpecRace == InitFiles /\ [][NextRace]_vars

(***************************************************************************)
(* Vocabulary of the properties.                                           *)
(***************************************************************************)
\* How often character c occurs in text s.
CountOf(s, c) == Cardinality({i \in DOMAIN s : s[i] = c})

\* Some "&"-separated pair of the text does not hold exactly one "=".
Malformed(text) ==
  LET pairs == split(text, "&") IN \E i \in DOMAIN pairs : CountOf(pairs[i], "=") # 1

\* Some "&"-separated pair of the text holds more than one "=".
AmbiguousPair(text) ==
  LET pairs == split(text, "&") IN \E i \in DOMAIN pairs : CountOf(pairs[i], "=") > 1

\* The bytes are UTF-8 and decode to well-formed pairs.
WellFormedBytes(data) == Utf8Valid(data) /\ ~Malformed(unquote_plus(data))

\* The stored documents that came from datagram n, and the errors logged for it.
RecordsOf(n) == {i \in DOMAIN store : store[i].src = n}
ErrorsOf(n) == {i \in DOMAIN log : log[i].level = "ERROR" /\ log[i].id = n}

\* The Consumer has received datagram n and save_data has returned from it.
Finished(n) ==
  /\ \E i \in DOMAIN log : log[i].level = "INFO" /\ log[i].id = n
  /\ cdata.id # n

\* The last request has been answered with the redirect to "/".
Redirected == resp.status = 302 /\ resp.location = <<"/">> /\ resp.end = "complete"

\* The handler of the last request has returned or raised.
Handled(method) == req.method = method /\ http = "serving" /\ hpc = "idle"

\* A record without its "date".
NonDate(doc) == [k \in DOMAIN doc \ {DateKey} |-> doc[k]]

\* The error record logging.error writes for datagram n.
ErrorRecord(n, exc) == [level |-> "ERROR", id |-> n, exc |-> exc]

(***************************************************************************)
(* Properties.                                                             *)
(***************************************************************************)
\* C1: every POST the Router has handled, whatever its body and its size and
\* whether or not the Consumer is bound, has been answered with a 302 whose
\* Location is "/".
C1_PostAlwaysRedirects == Handled("POST") => Redirected

\* C2: no datagram and no store outcome ends the Consumer: its loop is never
\* left by an exception of save_data, only by an interrupt.
C2_ConsumerNeverCrashes == csock # "crashed"

\* C3: a datagram that decodes to text in which some "&"-separated pair does
\* not hold exactly one "=" never has a record in the store, whole or of its
\* well-formed pairs only, and once save_data has returned from it its error
\* is in the log.
C3_MalformedStoresNothing ==
  \A n \in DOMAIN sent :
    LET data == Received(sent[n].data)
    IN  (Utf8Valid(data) /\ Malformed(unquote_plus(data)))
          => /\ RecordsOf(n) = {}
             /\ Finished(n) => \E i \in DOMAIN log :
                                  ErrorsOf(n) = {i} /\ log[i] = ErrorRecord(n, "ValueError")

\* C3 happens: save_data has returned from a datagram one of whose decoded
\* pairs holds more than one "=", with the error logged and nothing stored.
C3_Witness ==
  /\ csock = "recv"
  /\ \E i \in DOMAIN log :
       /\ log[i] = ErrorRecord(log[i].id, "ValueError")
       /\ AmbiguousPair(unquote_plus(Received(sent[log[i].id].data)))
       /\ RecordsOf(log[i].id) = {}

\* quote_plus of one character: a space is "+", a letter or digit is itself,
\* anything else is "%" and the two hex digits of its code.
QuoteChar(c) ==
  LET code == 31 + (CHOOSE i \in DOMAIN Printable : Printable[i] = c)
      hex == <<"0", "1", "2", "3", "4", "5", "6", "7", "8", "9", "A", "B", "C", "D", "E", "F">>
  IN  IF c = " " THEN <<"+">>
      ELSE IF (code >= 48 /\ code <= 57) \/ (code >= 65 /\ code <= 90)
                \/ (code >= 97 /\ code <= 122)
      THEN <<c>>
      ELSE <<"%", hex[(code \div 16) + 1], hex[(code % 16) + 1]>>

RECURSIVE QuotePlus(_)
QuotePlus(text) ==
  IF text = << >> THEN << >> ELSE QuoteChar(text[1]) \o QuotePlus(Tail(text))

\* The key/value pairs a form-encoded payload stands for: each pair is cut at
\* its "=" and then decoded.
FormPairs(payload) ==
  LET pairs == split(payload, "&")
  IN  [i \in DOMAIN pairs |->
         LET kv == split(pairs[i], "=")
         IN  <<unquote_plus(kv[1]), unquote_plus(kv[2])>>]

RECURSIVE FormEncode(_)
FormEncode(pairs) ==
  IF pairs = << >> THEN << >>
  ELSE QuotePlus(pairs[1][1]) \o <<"=">> \o QuotePlus(pairs[1][2])
         \o (IF Len(pairs) = 1 THEN << >> ELSE <<"&">> \o FormEncode(Tail(pairs)))

\* The payload is the form encoding of key/value pairs with distinct keys,
\* none of them "date".
IsFormEncoded(payload) ==
  /\ ~Malformed(payload)
  /\ \A i \in DOMAIN payload : payload[i] \in AsciiChars
  /\ FormEncode(FormPairs(payload)) = payload
  /\ LET pairs == FormPairs(payload)
     IN  /\ \A i, j \in DOMAIN pairs : pairs[i][1] = pairs[j][1] => i = j
         /\ \A i \in DOMAIN pairs : pairs[i][1] # DateKey

\* C4: save_data, given the form encoding of key/value pairs and a store that
\* accepts the insert, stores one record with exactly those keys, each with
\* its original value, and "date".
C4_DecodingRoundTrips ==
  [][(csock = "save" /\ csock' = "recv" /\ IsFormEncoded(cdata.data)
        /\ cdata.id \notin refused')
       => /\ Len(store') = Len(store) + 1
          /\ LET doc == store'[Len(store')].doc
                 pairs == FormPairs(cdata.data)
             IN  /\ DOMAIN doc = {pairs[i][1] : i \in DOMAIN pairs} \cup {DateKey}
                 /\ \A i \in DOMAIN pairs : doc[pairs[i][1]] = pairs[i][2]]_vars

\* C5: a POST with no Content-Length, or with one that is no non-negative
\* integer, does not fail and does not wait: an empty datagram is forwarded
\* and the redirect sent.
C5_BadLengthReadsNothing ==
  (req.method = "POST" /\ ~IsDigits(req.cl))
    => /\ resp.end # "fault"
       /\ hpc # "post_eof"
       /\ hpc = "post_sent" => sent[Len(sent)].data = << >>
       /\ Handled("POST") => Redirected

\* A file of the base directory, and the response that serves it.
UnderBase(f) == Len(f) = 2 /\ f[1] = <<"app">>
Served(f) ==
  [status |-> 200, location |-> << >>, ctype |-> Mimetype(f[2]),
   body |-> FileBytes(f), end |-> "complete"]

C7_MissingIs404 ==
  (Handled("GET") /\ ~Exists(GetPath(req.target)))
    => resp = [status |-> 404, location |-> << >>, ctype |-> "text/html",
               body |-> FileBytes(ErrorHtml), end |-> "complete"]

\* C8: a datagram whose insert the store refused has its error logged once,
\* has no record, then or later, and has not ended the loop; and every
\* well-formed datagram the Consumer has finished and the store did not
\* refuse has exactly one record, the decoding of what was received,
\* whatever happened to the datagrams before it.
C8_FaultIsolation ==
  /\ \A n \in refused :
       /\ RecordsOf(n) = {}
       /\ ~(csock = "crashed" /\ cdata.id = n)
       /\ Finished(n) => \E i \in DOMAIN log :
                            ErrorsOf(n) = {i} /\ log[i] = ErrorRecord(n, "StoreError")
  /\ \A m \in DOMAIN sent :
       (Finished(m) /\ m \notin refused /\ WellFormedBytes(Received(sent[m].data)))
         => \E i \in DOMAIN store, t \in 0..MaxClock :
              /\ RecordsOf(m) = {i}
              /\ store[i].doc = DataDict(Received(sent[m].data), t)

\* C8 happens: the store refused one datagram and a later one is stored.
C8_Witness ==
  \E n \in refused : \E m \in DOMAIN sent :
    m > n /\ Finished(n) /\ Finished(m) /\ RecordsOf(m) # {}

\* The body that stands for field=value, and its record.
FieldValue == <<"f", "=", "v">>
FieldValueDoc(t) ==
  [k \in {<<"f">>, DateKey} |-> IF k = DateKey THEN Datetime(t) ELSE <<"v">>]
FieldValuePosted ==
  req.method = "POST" /\ req.body = FieldValue /\ req.cl = Digits(Len(FieldValue))
OneFieldValueRecord(n) ==
  \E i \in DOMAIN store, t \in 0..MaxClock :
    RecordsOf(n) = {i} /\ store[i].doc = FieldValueDoc(t)

\* C9 as stated, in the form a finite run decides: a POST of field=value made
\* once both workers had been started is answered 302, and when the Consumer
\* waits for the next datagram with none queued, nothing more can come of
\* the POST, so its one record is in the store.
C9_PostIsStored ==
  /\ (FieldValuePosted /\ Handled("POST")) => Redirected
  /\ (/\ FieldValuePosted
      /\ Redirected
      /\ sent[Len(sent)].started
      /\ csock = "recv"
      /\ chan = << >>) => OneFieldValueRecord(Len(sent))

\* C9 as amended: the POST is answered 302; its datagram, when it was queued
\* at the Consumer's bound socket, has exactly one record once the Consumer
\* has finished it and the store did not refuse the insert; a datagram that
\* was not queued has none; and no datagram ever has two.
C9_QueuedPostIsStored ==
  /\ (FieldValuePosted /\ Handled("POST")) => Redirected
  /\ \A n \in DOMAIN sent :
       sent[n].data = FieldValue
         => /\ ~sent[n].queued => RecordsOf(n) = {}
            /\ (sent[n].queued /\ Finished(n) /\ n \notin refused) => OneFieldValueRecord(n)
            /\ Cardinality(RecordsOf(n)) <= 1

\* C9 happens: the POST of field=value has its redirect and its record.
C9_Witness ==
  /\ FieldValuePosted
  /\ Redirected
  /\ sent[Len(sent)].started
  /\ OneFieldValueRecord(Len(sent))

\* C10: no record comes from a datagram longer than the receive buffer:
\* every record's fields other than "date" are the decoding of the whole
\* payload it came from, which fits the buffer.
C10_OversizeIsLost ==
  \A i \in DOMAIN store :
    LET whole == sent[store[i].src].data
    IN  /\ Len(whole) <= buffer_size
        /\ NonDate(store[i].doc) = NonDate(Dict(KvLists(unquote_plus(whole))))

\* The bytes a POST's handler reads as the body: the first Content-Length
\* bytes, none without a usable Content-Length, and all the client sent when
\* it sent fewer.
BodyRead(r) ==
  IF r.cl = NoHeader \/ IntRaises(r.cl) THEN << >>
  ELSE IF IntValue(r.cl) < 0 \/ IntValue(r.cl) > Len(r.body) THEN r.body
  ELSE SubSeq(r.body, 1, IntValue(r.cl))

\* The POST requests whose handler raises, told from the request alone.
PostFaults(r) ==
  \/ r.cl # NoHeader /\ IntRaises(r.cl)
  \/ r.cl # NoHeader /\ IntValue(r.cl) < -1
  \/ Len(BodyRead(r)) > UDP_MAX

\* The Consumer has received datagram n.
Touched(n) ==
  \/ cdata.id = n
  \/ \E i \in DOMAIN log : log[i].id = n
  \/ RecordsOf(n) # {}

\* The datagrams that are queued for the Consumer or that it has received.
ConsumerIds ==
  ({cdata.id} \ {0}) \cup {chan[i].id : i \in DOMAIN chan}
    \cup {log[i].id : i \in DOMAIN log} \cup {store[i].src : i \in DOMAIN store}

\* C11 as stated: while the response to a POST is still unsent, the Consumer
\* has not begun to process that POST's datagram: it has neither received it
\* nor stored or failed on its record.
C11_ProcessedAfterResponse == hpc = "post_sent" => ~Touched(Len(sent))

\* C11 as amended: the Consumer processes only datagrams the Router has sent,
\* possibly while the response is still unsent; nothing of what the Consumer
\* does is written to the response, which the request alone decides: the
\* redirect, or nothing when the handler raised before or in the send.
C11_ProcessedAfterSendOnly ==
  /\ ConsumerIds \subseteq DOMAIN sent
  /\ hpc = "post_sent" => resp = NoResp
  /\ Handled("POST") => IF PostFaults(req)
                        THEN resp = [NoResp EXCEPT !.end = "fault"]
                        ELSE Redirected

\* C11 happens: the Consumer has failed on the record of a POST whose
\* response the Router has not sent yet.
C11_Witness == hpc = "post_sent" /\ ErrorsOf(Len(sent)) # {}

\* A step in which the handler of a POST has read the body: do_POST with
\* the bytes at hand, or the end of a read that waited for the client.
PostHasRead ==
  \/ nreq' = nreq + 1 /\ req'.method = "POST" /\ hpc' # "post_eof"
  \/ hpc = "post_eof" /\ hpc' # "post_eof" /\ http' = "serving"

\* C12: the handler of every POST sends exactly one datagram, whose payload
\* is the bytes read as the body whatever the request's path; nothing else
\* sends a datagram, and the 302 is written only after the send.
C12_SingleSendVerbatim ==
  [][/\ PostHasRead => /\ Len(sent') = Len(sent) + 1
                       /\ sent'[Len(sent')].data = BodyRead(req')
     /\ sent' # sent => /\ PostHasRead
                        /\ SubSeq(sent', 1, Len(sent)) = sent
                        /\ resp'.status # 302
     /\ (resp'.status = 302 /\ resp # resp') => hpc = "post_sent" /\ sent' = sent]_vars

\* C13: the store never holds more records than datagrams were sent by POST
\* handling; every record comes from one of those datagrams, no datagram has
\* two records or is received twice, and no more datagrams were sent than
\* requests made, so that a GET adds none.
C13_AtMostOnce ==
  /\ Len(store) <= Len(sent)
  /\ Len(sent) <= nreq
  /\ \A i \in DOMAIN store : store[i].src \in DOMAIN sent
  /\ \A n \in DOMAIN sent :
       /\ Cardinality(RecordsOf(n)) <= 1
       /\ Cardinality({i \in DOMAIN log : log[i].level = "INFO" /\ log[i].id = n}) <= 1

\* C13 happens: a POST's datagram has its one record and a GET handled after
\* it has added none.
C13_Witness ==
  /\ Handled("GET")
  /\ resp.end = "complete"
  /\ Len(sent) = 1
  /\ Finished(1)
  /\ Len(store) = 1

\* C14: an interrupt can reach a worker wherever it is in its loop; a worker
\* an interrupt has reached has left its loop with its socket closed and
\* takes no further step; and once both workers have been interrupted the
\* supervising process has ended or its pending join returns.
C14_OrderlyShutdown ==
  /\ http = "serving" => ENABLED HttpInterrupt
  /\ csock \in {"recv", "save"} => ENABLED SocketInterrupt
  /\ "http" \in intr
       => /\ http = "stopped"
          /\ hpc = "idle"
          /\ ~ENABLED (DoGet \/ GetBody \/ DoPost \/ PostEof \/ PostRedirect)
  /\ "socket" \in intr
       => /\ csock = "stopped"
          /\ ~Delivered
          /\ ~ENABLED (SocketRecv \/ SaveData)
  /\ intr = {"http", "socket"}
       => main = "exit" \/ ENABLED JoinHttp \/ ENABLED JoinSocket

\* C14 happens: the Router was interrupted while it handled a request and
\* the Consumer inside save_data, and the supervising process has ended.
C14_Witness ==
  /\ intr = {"http", "socket"}
  /\ resp.end = "abandoned"
  /\ cdata.id # 0
  /\ main = "exit"

\* C15: when the Consumer's bind has failed the Router still answers every
\* GET and answers every POST with the redirect, and when the Router's bind
\* has failed a Consumer that has bound stays in its loop until interrupted.
C15_BindFailureIsolated ==
  /\ (csock = "dead" /\ Handled("POST")) => Redirected
  /\ (csock = "dead" /\ Handled("GET")) => resp.end = "complete" /\ resp.status \in {200, 404}
  /\ (http = "dead" /\ csock \notin {"none", "boot", "dead"} /\ "socket" \notin intr)
       => csock \in {"recv", "save"}

\* C16: every record has a "date", which is a reading of the Consumer's
\* clock, not later than the clock shows now and not earlier than the dates
\* of the records before it, also when the payload has a "date" key of its
\* own; the other keys are the payload's keys, each with one of the values
\* the payload gives it.
C16_DateIsClockReading ==
  \A i \in DOMAIN store :
    LET doc == store[i].doc
        lists == KvLists(unquote_plus(Received(sent[store[i].src].data)))
    IN  /\ DateKey \in DOMAIN doc
        /\ \E t \in 0..now :
             /\ doc[DateKey] = Datetime(t)
             /\ \A j \in 1..(i - 1) : \E u \in 0..t : store[j].doc[DateKey] = Datetime(u)
        /\ DOMAIN doc = {lists[j][1] : j \in DOMAIN lists} \cup {DateKey}
        /\ \A k \in DOMAIN doc \ {DateKey} :
             \E j \in DOMAIN lists : lists[j][1] = k /\ lists[j][2] = doc[k]

\* C16 happens: a payload with a "date" key has its record, whose "date" is
\* the clock's reading.
C16_Witness ==
  \E i \in DOMAIN store :
    /\ sent[store[i].src].data = <<"d", "a", "t", "e", "=", "5">>
    /\ store[i].doc[DateKey] = Datetime(now)

\* A path is inside the base directory: the file it names is reached through
\* the base directory.
InsideBase(path) ==
  LET loc == Location(path)
      base == Location(base_dir)
  IN  Len(loc) >= Len(base) /\ SubSeq(loc, 1, Len(base)) = base

\* The request goes to the generic branch of do_GET, and its target has a
\* ".." segment.
Generic(target) == UrlPath(SelfPath(target)) \notin {<<"/">>, <<"/", "message">>}
HasDotDot(target) == \E i \in DOMAIN target : target[i] = ".."

\* C17 as stated: for every GET on the generic branch, ".." segments and
\* several leading "/" included, the path do_GET resolves, and the path
\* send_file is about to read, are inside the base directory.
C17_ServedUnderBase ==
  (req.method = "GET" /\ Generic(req.target))
    => /\ InsideBase(GetPath(req.target))
       /\ hpc = "get_body" => InsideBase(hfile)

\* C17 as amended: the same for every request path that has no ".." segment.
C17_ServedUnderBaseWithoutDotDot ==
  (req.method = "GET" /\ Generic(req.target) /\ ~HasDotDot(req.target))
    => /\ InsideBase(GetPath(req.target))
       /\ hpc = "get_body" => InsideBase(hfile)

\* C17 happens: a file asked for with two leading "/" has been served from
\* the base directory.
C17_Witness ==
  /\ Handled("GET")
  /\ req.target = <<"/", "/", "style", ".css">>
  /\ resp = Served(InBase(<<"style", ".css">>))

\* C18: the handling of every GET ends with one complete response of status
\* 200 or 404, whatever files the base directory holds.
C18_GetAlwaysAnswered ==
  Handled("GET") => resp.end = "complete" /\ resp.status \in {200, 404}

\* C19: while files come and go, a handled GET has been answered 200 with the
\* whole file, or 404 with the not-found document, or its handler has
\* raised; and a handler that raised has sent no 200 status line.
C19_No200BeforeRead ==
  /\ Handled("GET")
       => \/ resp.end = "complete" /\ resp.status = 200
                /\ resp.body = FileBytes(Location(GetPath(req.target)))
          \/ resp.end = "complete" /\ resp.status = 404 /\ resp.body = FileBytes(ErrorHtml)
          \/ resp.end = "fault"
  /\ resp.end = "fault" => resp.status # 200

\* C20: a MongoClient is open exactly while the Consumer is in save_data with
\* a datagram: one then, and none while it waits in recvfrom or after it has
\* left its loop, whatever became of the datagrams before.
C20_ClientScopedToDatagram ==
  /\ clients \in {0, 1}
  /\ csock = "save" => clients = 1
  /\ csock # "save" => clients = 0

\* C20 happens: the Consumer waits for the next datagram with no client open
\* after a decode failure and a store failure.
C20_Witness ==
  /\ csock = "recv"
  /\ clients = 0
  /\ \E i, j \in DOMAIN log : log[i].exc = "ValueError" /\ log[j].exc = "StoreError"

====
